---- MODULE Spec2Model ----
\* A model of hezar's model / registry / pretrained-artifact lifecycle:
\*   hezar/models/base_model.py            BaseModel (from_pretrained, save_pretrained,
\*                                          push_to_hub, the abstract operations)
\*   hezar/preprocessors/tokenizers/wordpiece.py   WordPieceTokenizer.build
\*   hezar/models/sequence_labeling/distilbert/distilbert_sequence_labeling.py
\*                                          registration, _build_inner_config
\* The program is single-threaded and synchronous: one call is in progress at a
\* time, `pc` is the statement the call is at, and every statement that calls a
\* wrapped library (hub client, file system, tensor library) may raise.
EXTENDS Integers, Sequences, FiniteSets, TLC

VARIABLES
    models_registry,        \* name -> registry entry (process-wide dict)
    preprocessors_registry, \* name -> registry entry (process-wide dict)
    reg_log,                \* registrations made so far, oldest first
    lookup,                 \* outcome of the last registry subscript
    hub,                    \* repo id -> the repo on the hub (exists, files)
    fs,                     \* local directory -> artifact bundle
    model,                  \* the model object the caller holds
    pc,                     \* statement the call in progress is at, or "idle"
    frame,                  \* arguments and locals of the call in progress / last call
    steps,                  \* library calls made by the call in progress / last call
    result,                 \* how the last call ended
    calls,                  \* calls made so far
    tok,                    \* WordPieceTokenizer under construction (config, artifact)
    dbert                   \* DistilBertSequenceLabeling config and its inner config

vars == <<models_registry, preprocessors_registry, reg_log, lookup, hub, fs, model,
          pc, frame, steps, result, calls, tok, dbert>>

registryVars == <<models_registry, preprocessors_registry, reg_log, lookup>>
lifeVars == <<hub, fs, model, pc, frame, steps, result, calls>>

-----------------------------------------------------------------------------
\* Values

\* HEZAR_HUB_ID, the fixed organization whose repos push_to_hub lists.
HEZAR_HUB_ID == "hezar-ai"

\* Paths and repo ids are sequences of path components ("hezar-ai/m" is
\* <<"hezar-ai", "m">>).
LocalDirs == {<<"a">>, <<"b">>}
RepoIds == {<<"hezar-ai", "m">>, <<"user", "m">>}
NoPath == <<>>

\* The cache directory a hub repo is downloaded to.
CacheDir(id) == <<"cache">> \o id
CacheDirs == {CacheDir(id) : id \in RepoIds}
Dirs == LocalDirs \cup CacheDirs

ModelNames == {"distilbert_sequence_labeling", "unregistered_model"}
NoConfig == [name |-> "", pretrained_path |-> NoPath, opt |-> "none"]
NoBundle == [present |-> FALSE, config |-> NoConfig, weights |-> "none"]
NoRepo == [exists |-> FALSE, files |-> NoBundle, origin |-> "none"]
Bundle(name, path, w) ==
    [present |-> TRUE,
     config |-> [name |-> name, pretrained_path |-> path, opt |-> "default"],
     weights |-> w]

\* ModelMode
ModelMode == {"inference", "training"}

NoModel == [exists |-> FALSE, cls |-> "", mode |-> "", repo_dir |-> NoPath,
            config |-> NoConfig, module |-> "none", state_dict |-> "none"]

NoFrame == [op |-> "none", cls |-> "", path |-> NoPath, kwargs |-> "none",
            repo_dir |-> NoPath, model_name |-> "", config_class |-> "",
            config |-> NoConfig, model |-> NoModel, state_dict |-> "none",
            model_names |-> {}]

\* Keyword overrides given to from_pretrained: none, or opt = "override".
Kwargs == {"none", "override"}

Classes == {"BaseModel", "DistilBertSequenceLabeling"}

-----------------------------------------------------------------------------
\* Registry (hezar/registry.py): two process-wide dicts filled by the
\* register_model / register_preprocessor decorators at import time.

MaxRegs == 2

RegNames == {"distilbert_sequence_labeling", "wordpiece_tokenizer", "unregistered_model"}
ImplClasses == {"DistilBertSequenceLabeling", "WordPieceTokenizer"}
ConfigClasses == {"DistilBertSequenceLabelingConfig", "WordPieceConfig"}

NoEntry == [registered |-> FALSE, cls |-> "", config |-> ""]
Entry(cls, config_class) == [registered |-> TRUE, cls |-> cls, config |-> config_class]
EmptyRegistry == [n \in RegNames |-> NoEntry]
NoLookup == [kind |-> "none", name |-> "", status |-> "none", entry |-> NoEntry]

\* registry[name] = dict(cls, config_class): a later registration under the same
\* name replaces the earlier one.
RegistryPut(registry, name, cls, config_class) ==
    [registry EXCEPT ![name] = Entry(cls, config_class)]

\* A faulty variant of Subscript: dict.get with a default instead of a subscript.
SubscriptOrDefault(registry, name) ==
    [status |-> "ok", entry |-> registry[name]]

\* registry[name]: the entry, or KeyError when the name was never registered.
Subscript(registry, name) ==
    IF registry[name].registered
    THEN [status |-> "ok", entry |-> registry[name]]
    ELSE [status |-> "KeyError", entry |-> NoEntry]

\* @register_model("distilbert_sequence_labeling", DistilBertSequenceLabelingConfig)
\* class DistilBertSequenceLabeling
ImportDistilBert(registry) ==
    RegistryPut(registry, "distilbert_sequence_labeling",
                "DistilBertSequenceLabeling", "DistilBertSequenceLabelingConfig")

\* @register_preprocessor("wordpiece_tokenizer", config_class=WordPieceConfig)
\* class WordPieceTokenizer
ImportWordPiece(registry) ==
    RegistryPut(registry, "wordpiece_tokenizer", "WordPieceTokenizer", "WordPieceConfig")

LogEntry(kind, name, cls, config_class) ==
    [kind |-> kind, name |-> name, cls |-> cls, config |-> config_class]

register_model(name, config_class, cls) ==
    /\ Len(reg_log) < MaxRegs
    /\ models_registry' = RegistryPut(models_registry, name, cls, config_class)
    /\ reg_log' = Append(reg_log, LogEntry("model", name, cls, config_class))
    /\ UNCHANGED <<preprocessors_registry, lookup>>

register_preprocessor(name, config_class, cls) ==
    /\ Len(reg_log) < MaxRegs
    /\ preprocessors_registry' = RegistryPut(preprocessors_registry, name, cls, config_class)
    /\ reg_log' = Append(reg_log, LogEntry("preprocessor", name, cls, config_class))
    /\ UNCHANGED <<models_registry, lookup>>

RegistryOf(kind) == IF kind = "model" THEN models_registry ELSE preprocessors_registry

\* A caller subscripts one of the registries.
Lookup(kind, name) ==
    /\ lookup' = [kind |-> kind, name |-> name,
                  status |-> Subscript(RegistryOf(kind), name).status,
                  entry |-> Subscript(RegistryOf(kind), name).entry]
    /\ UNCHANGED <<models_registry, preprocessors_registry, reg_log>>

RegisterModel ==
    \E n \in RegNames, c \in ConfigClasses, k \in ImplClasses : register_model(n, c, k)

RegisterPreprocessor ==
    \E n \in RegNames, c \in ConfigClasses, k \in ImplClasses : register_preprocessor(n, c, k)

DoLookup == \E kind \in {"model", "preprocessor"}, n \in RegNames : Lookup(kind, n)


-----------------------------------------------------------------------------
\* Repo client (hezar/hezar_repo.py) and the wrapped hub / file-system calls.

Last(path) == path[Len(path)]

\* os.path.basename(repo_id)
Basename(repo_id) == IF Len(repo_id) = 0 THEN "" ELSE Last(repo_id)

\* api.list_models(author=HEZAR_HUB_ID): the ids of the organization's repos.
ListModels(h) == {id \in RepoIds : h[id].exists /\ Len(id) = 2 /\ id[1] = HEZAR_HUB_ID}

\* [model.modelId.split('/')[-1] for model in models]
ModelIdNames(models) == {Last(id) : id \in models}

\* HezarRepo(path): an existing local directory is used in place, anything else
\* is taken as a hub id and downloaded to the cache.
IsDir(files, path) == path \in DOMAIN files /\ files[path].present

CanResolve(path) ==
    \/ IsDir(fs, path)
    \/ path \in RepoIds /\ hub[path].exists /\ hub[path].files.present

ResolvedDir(path) == IF IsDir(fs, path) THEN path ELSE CacheDir(path)

ResolvedFs(path) ==
    IF IsDir(fs, path) THEN fs ELSE [fs EXCEPT ![CacheDir(path)] = hub[path].files]

\* merge_kwargs_into_config(config, kwargs): a keyword override replaces the
\* config's value for the same key, other keys keep their values.
merge_kwargs_into_config(config, kwargs) ==
    IF kwargs = "none" THEN config ELSE [config EXCEPT !.opt = kwargs]

\* move_repo(src, dst, keep_source): copy the artifact directory to dst and
\* remove src unless keep_source.
move_repo(files, src, dst, keep_source) ==
    IF keep_source \/ src = dst
    THEN [files EXCEPT ![dst] = files[src]]
    ELSE [files EXCEPT ![dst] = files[src], ![src] = NoBundle]

-----------------------------------------------------------------------------
\* Calls: how one starts, how a statement raises, how one returns.

\* The number of calls a behaviour makes.
MaxCalls == 4

Idle == pc = "idle" /\ calls < MaxCalls

\* What stays of a call's frame once it has ended: its arguments.
Ended(f) ==
    [NoFrame EXCEPT !.op = f.op, !.cls = f.cls, !.path = f.path, !.kwargs = f.kwargs]

Begin(first, f) ==
    /\ Idle
    /\ calls' = calls + 1
    /\ pc' = first
    /\ frame' = f
    /\ steps' = <<>>
    /\ result' = "running"

\* A call made of one statement: it starts and ends in one step.
Atomic(f, done, outcome) ==
    /\ Idle
    /\ calls' = calls + 1
    /\ pc' = "idle"
    /\ frame' = Ended(f)
    /\ steps' = done
    /\ result' = outcome

\* A faulty variant of Raise: the exception is caught and the statement tried again.
Retry(err) ==
    /\ pc' = pc
    /\ result' = result
    /\ frame' = frame
    /\ calls' = calls

\* An exception leaves the call at once: nothing in base_model.py catches one.
Raise(err) ==
    /\ pc' = "idle"
    /\ result' = err
    /\ frame' = Ended(frame)
    /\ calls' = calls

Return ==
    /\ pc' = "idle"
    /\ result' = "ok"
    /\ frame' = Ended(frame)
    /\ calls' = calls

\* The statement completes and the call goes on with frame f.
Continue(next, f) ==
    /\ pc' = next
    /\ frame' = f
    /\ UNCHANGED <<result, calls>>

Did(step) == steps' = Append(steps, step)

-----------------------------------------------------------------------------
\* BaseModel.__init__ and BaseModel.from_pretrained

\* A faulty variant of InferenceMode: the model is built in training mode.
TrainingMode == "training"

\* mode=ModelMode.inference, as from_pretrained passes it
InferenceMode == "inference"

\* BaseModel.__init__(config, mode, repo, **kwargs) with a repo given:
\*   self.repo = repo; self.config = merge_kwargs_into_config(config, kwargs);
\*   self.model = self.build_model(mode=mode)
\* The module is freshly built: its weights are the initial ones.
NewModel(cls, config, mode, repo_dir, kwargs) ==
    [exists |-> TRUE, cls |-> cls, mode |-> mode, repo_dir |-> repo_dir,
     config |-> merge_kwargs_into_config(config, kwargs),
     module |-> "built", state_dict |-> "initial"]

\* model.model.load_state_dict(model_state_dict)
load_state_dict(m, state_dict) == [m EXCEPT !.state_dict = state_dict]

from_pretrained(cls, path, kwargs) ==
    /\ Begin("fp_repo",
             [NoFrame EXCEPT !.op = "from_pretrained", !.cls = cls, !.path = path,
                             !.kwargs = kwargs])
    /\ UNCHANGED <<hub, fs, model>>

\* repo = HezarRepo(path)
FpRepo(fail) ==
    /\ pc = "fp_repo"
    /\ Did("HezarRepo")
    /\ IF fail \/ ~CanResolve(frame.path)
       THEN Raise("RepoError") /\ UNCHANGED fs
       ELSE /\ fs' = ResolvedFs(frame.path)
            /\ Continue("fp_name", [frame EXCEPT !.repo_dir = ResolvedDir(frame.path)])
    /\ UNCHANGED <<hub, model>>

\* model_name = repo.get_model_registry_name()
FpName(fail) ==
    /\ pc = "fp_name"
    /\ Did("get_model_registry_name")
    /\ IF fail
       THEN Raise("ConfigError")
       ELSE Continue("fp_lookup",
                     [frame EXCEPT !.model_name = fs[frame.repo_dir].config.name])
    /\ UNCHANGED <<hub, fs, model>>

\* model_config_class = models_registry[model_name]['model_config']
FpLookup ==
    /\ pc = "fp_lookup"
    /\ Did("models_registry")
    /\ IF Subscript(models_registry, frame.model_name).status # "ok"
       THEN Raise("KeyError")
       ELSE Continue("fp_config",
                     [frame EXCEPT !.config_class =
                         Subscript(models_registry, frame.model_name).entry.config])
    /\ UNCHANGED <<hub, fs, model>>

\* config = repo.get_config(model_config_class=model_config_class)
FpConfig(fail) ==
    /\ pc = "fp_config"
    /\ Did("get_config")
    /\ IF fail
       THEN Raise("ConfigError")
       ELSE Continue("fp_init", [frame EXCEPT !.config = fs[frame.repo_dir].config])
    /\ UNCHANGED <<hub, fs, model>>

\* model = cls(config, mode=ModelMode.inference, repo=repo, **kwargs)
\* BaseModel is abstract and cannot be instantiated; a subclass's build_model
\* may raise.
FpInit(fail) ==
    /\ pc = "fp_init"
    /\ Did("cls")
    /\ IF frame.cls = "BaseModel"
       THEN Raise("TypeError")
       ELSE IF fail
       THEN Raise("BuildError")
       ELSE Continue("fp_get_model",
                     [frame EXCEPT !.model =
                         NewModel(frame.cls, frame.config, InferenceMode,
                                  frame.repo_dir, frame.kwargs)])
    /\ UNCHANGED <<hub, fs, model>>

\* model_state_dict = repo.get_model(return_state_dict=True)
FpGetModel(fail) ==
    /\ pc = "fp_get_model"
    /\ Did("get_model")
    /\ IF fail
       THEN Raise("WeightsError")
       ELSE Continue("fp_load", [frame EXCEPT !.state_dict = fs[frame.repo_dir].weights])
    /\ UNCHANGED <<hub, fs, model>>

\* model.model.load_state_dict(model_state_dict)
FpLoad(fail) ==
    /\ pc = "fp_load"
    /\ Did("load_state_dict")
    /\ IF fail
       THEN Raise("WeightsError")
       ELSE Continue("fp_return",
                     [frame EXCEPT !.model = load_state_dict(frame.model, frame.state_dict)])
    /\ UNCHANGED <<hub, fs, model>>

\* return model
FpReturn ==
    /\ pc = "fp_return"
    /\ model' = frame.model
    /\ Return
    /\ UNCHANGED <<hub, fs, steps>>

\* cls(config, mode) called directly, with no repo: __init__ resolves
\* HezarRepo(config.pretrained_path) itself.
Construct(cls, name, path, mode, fail) ==
    /\ Atomic([NoFrame EXCEPT !.op = "__init__", !.cls = cls, !.path = path],
              <<"cls">>,
              IF ~CanResolve(path) THEN "RepoError"
              ELSE IF fail THEN "BuildError" ELSE "ok")
    /\ IF ~CanResolve(path)
       THEN UNCHANGED <<fs, model>>
       ELSE IF fail
       THEN fs' = ResolvedFs(path) /\ UNCHANGED model
       ELSE /\ fs' = ResolvedFs(path)
            /\ model' = NewModel(cls, [name |-> name, pretrained_path |-> path,
                                       opt |-> "default"],
                                 mode, ResolvedDir(path), "none")
    /\ UNCHANGED hub

-----------------------------------------------------------------------------
\* BaseModel.save_pretrained

\* A faulty variant of KeepSource: the directory is moved, not copied.
DropSource == FALSE

\* keep_source=True, as save_pretrained passes it
KeepSource == TRUE

\* self.repo.move_repo(self.repo.repo_dir, path, keep_source=True)
save_pretrained(path, fail) ==
    /\ model.exists
    /\ Atomic([NoFrame EXCEPT !.op = "save_pretrained", !.path = path],
              <<"move_repo">>, IF fail THEN "OSError" ELSE "ok")
    /\ fs' = IF fail THEN fs ELSE move_repo(fs, model.repo_dir, path, KeepSource)
    /\ UNCHANGED <<hub, model>>

-----------------------------------------------------------------------------
\* BaseModel.push_to_hub

\* A faulty variant of RewriteConfig: the config is saved as it was read.
KeepConfig(config, repo_id) == config

\* config.model.pretrained_path = repo_id
RewriteConfig(config, repo_id) == [config EXCEPT !.pretrained_path = repo_id]

\* A faulty variant of NameListed: the whole repo id is looked up among the names.
IdListed(repo_id, model_names) == repo_id \in {<<n>> : n \in model_names}

\* os.path.basename(repo_id) in model_names
NameListed(repo_id, model_names) == Basename(repo_id) \in model_names

push_to_hub(repo_id) ==
    /\ model.exists
    /\ Begin("pth_list", [NoFrame EXCEPT !.op = "push_to_hub", !.path = repo_id])
    /\ UNCHANGED <<hub, fs, model>>

\* models = api.list_models(author=HEZAR_HUB_ID); model_names = [...]
\* if os.path.basename(repo_id) not in model_names: ... else: logging.info(...)
PthList(fail) ==
    /\ pc = "pth_list"
    /\ Did("list_models")
    /\ IF fail
       THEN Raise("HubError")
       ELSE Continue(IF NameListed(frame.path, ModelIdNames(ListModels(hub)))
                     THEN "pth_get_config" ELSE "pth_create",
                     [frame EXCEPT !.model_names = ModelIdNames(ListModels(hub))])
    /\ UNCHANGED <<hub, fs, model>>

\* create_repo(repo_id): the hub refuses to create a repo that exists.
PthCreate(fail) ==
    /\ pc = "pth_create"
    /\ Did("create_repo")
    /\ IF fail \/ hub[frame.path].exists
       THEN Raise("HubError") /\ UNCHANGED hub
       ELSE /\ hub' = [hub EXCEPT ![frame.path] =
                          [exists |-> TRUE, files |-> NoBundle, origin |-> "create_repo"]]
            /\ Continue("pth_get_config", frame)
    /\ UNCHANGED <<fs, model>>

\* config = self.repo.get_config(config_file='config.yaml')
PthGetConfig(fail) ==
    /\ pc = "pth_get_config"
    /\ Did("get_config")
    /\ IF fail
       THEN Raise("ConfigError")
       ELSE Continue("pth_save_config",
                     [frame EXCEPT !.config = fs[model.repo_dir].config])
    /\ UNCHANGED <<hub, fs, model>>

\* config.model.pretrained_path = repo_id
\* OmegaConf.save(config, f'{self.repo.repo_dir}/config.yaml')
PthSaveConfig(fail) ==
    /\ pc = "pth_save_config"
    /\ Did("OmegaConf.save")
    /\ IF fail
       THEN Raise("OSError") /\ UNCHANGED fs
       ELSE /\ fs' = [fs EXCEPT ![model.repo_dir].config =
                         RewriteConfig(frame.config, frame.path)]
            /\ Continue("pth_upload",
                        [frame EXCEPT !.config = RewriteConfig(frame.config, frame.path)])
    /\ UNCHANGED <<hub, model>>

\* api.upload_folder(folder_path=self.repo.repo_dir, repo_id=repo_id, ...): the
\* hub refuses an upload to a repo that does not exist. Then the call returns.
PthUpload(fail) ==
    /\ pc = "pth_upload"
    /\ Did("upload_folder")
    /\ IF fail \/ ~hub[frame.path].exists
       THEN Raise("HubError") /\ UNCHANGED hub
       ELSE /\ hub' = [hub EXCEPT ![frame.path].files = fs[model.repo_dir]]
            /\ Return
    /\ UNCHANGED <<fs, model>>

-----------------------------------------------------------------------------
\* The abstract operations of BaseModel: each body is `raise NotImplementedError`.

Raised(err) == [raised |-> err, value |-> "none"]
Returned(value) == [raised |-> "none", value |-> value]

\* A faulty variant of forward: the inputs are handed back.
forward_passthrough(inputs) == Returned(inputs)

build_model(mode) == Raised("NotImplementedError")
forward(inputs) == Raised("NotImplementedError")
predict(inputs) == Raised("NotImplementedError")
postprocess(inputs) == Raised("NotImplementedError")

AbstractOps == {"build_model", "forward", "predict", "postprocess"}
Inputs == {"inputs_1", "inputs_2"}
ArgsOf(op) == IF op = "build_model" THEN ModelMode ELSE Inputs

BaseCall(op, x) ==
    CASE op = "build_model" -> build_model(x)
      [] op = "forward" -> forward(x)
      [] op = "predict" -> predict(x)
      [] op = "postprocess" -> postprocess(x)

\* BaseModel.<op>(self, x): the base class's own body runs (reached through
\* super() or the unbound method; BaseModel itself cannot be instantiated).
CallBase(op, x) ==
    /\ model.exists
    /\ Atomic([NoFrame EXCEPT !.op = op, !.kwargs = x], <<>>,
              IF BaseCall(op, x).raised # "none" THEN BaseCall(op, x).raised ELSE "ok")
    /\ UNCHANGED <<hub, fs, model>>

-----------------------------------------------------------------------------
\* The lifecycle specification: a caller making any sequence of calls.

ImportedModels == ImportDistilBert(EmptyRegistry)
ImportedPreprocessors == ImportWordPiece(EmptyRegistry)
ImportLog ==
    <<LogEntry("model", "distilbert_sequence_labeling",
               "DistilBertSequenceLabeling", "DistilBertSequenceLabelingConfig"),
      LogEntry("preprocessor", "wordpiece_tokenizer", "WordPieceTokenizer",
               "WordPieceConfig")>>

\* No tokenizer and no DistilBert model are under construction.
NoTok == [phase |-> "none"]
NoDbert == [phase |-> "none"]

\* The artifacts that exist before the first call: one local bundle, and the
\* organization's repo "m" either on the hub already or not.
InitFs(name) ==
    [d \in Dirs |-> IF d = <<"a">> THEN Bundle(name, <<"a">>, "w_a") ELSE NoBundle]

EmptyHub == [id \in RepoIds |-> NoRepo]

SeededHub ==
    [EmptyHub EXCEPT ![<<"hezar-ai", "m">>] =
        [exists |-> TRUE,
         files |-> Bundle("distilbert_sequence_labeling", <<"hezar-ai", "m">>, "w_m"),
         origin |-> "preexisting"]]

Init ==
    /\ models_registry = ImportedModels
    /\ preprocessors_registry = ImportedPreprocessors
    /\ reg_log = ImportLog
    /\ lookup = NoLookup
    /\ hub \in {EmptyHub, SeededHub}
    /\ \E name \in ModelNames : fs = InitFs(name)
    /\ model = NoModel
    /\ pc = "idle"
    /\ frame = NoFrame
    /\ steps = <<>>
    /\ result = "none"
    /\ calls = 0
    /\ tok = NoTok
    /\ dbert = NoDbert

notLife == <<registryVars, tok, dbert>>

StartFromPretrained ==
    /\ \E cls \in Classes, path \in LocalDirs \cup RepoIds, kwargs \in Kwargs :
          from_pretrained(cls, path, kwargs)
    /\ UNCHANGED notLife

DoConstruct ==
    /\ \E path \in LocalDirs, mode \in ModelMode, fail \in BOOLEAN :
          Construct("DistilBertSequenceLabeling", "distilbert_sequence_labeling",
                    path, mode, fail)
    /\ UNCHANGED notLife

DoSavePretrained ==
    /\ \E path \in LocalDirs, fail \in BOOLEAN : save_pretrained(path, fail)
    /\ UNCHANGED notLife

StartPushToHub ==
    /\ \E repo_id \in RepoIds : push_to_hub(repo_id)
    /\ UNCHANGED notLife

DoCallBase ==
    /\ \E op \in AbstractOps : \E x \in ArgsOf(op) : CallBase(op, x)
    /\ UNCHANGED notLife

DoFpRepo == (\E fail \in BOOLEAN : FpRepo(fail)) /\ UNCHANGED notLife
DoFpName == (\E fail \in BOOLEAN : FpName(fail)) /\ UNCHANGED notLife
DoFpLookup == FpLookup /\ UNCHANGED notLife
DoFpConfig == (\E fail \in BOOLEAN : FpConfig(fail)) /\ UNCHANGED notLife
DoFpInit == (\E fail \in BOOLEAN : FpInit(fail)) /\ UNCHANGED notLife
DoFpGetModel == (\E fail \in BOOLEAN : FpGetModel(fail)) /\ UNCHANGED notLife
DoFpLoad == (\E fail \in BOOLEAN : FpLoad(fail)) /\ UNCHANGED notLife
DoFpReturn == FpReturn /\ UNCHANGED notLife
DoPthList == (\E fail \in BOOLEAN : PthList(fail)) /\ UNCHANGED notLife
DoPthCreate == (\E fail \in BOOLEAN : PthCreate(fail)) /\ UNCHANGED notLife
DoPthGetConfig == (\E fail \in BOOLEAN : PthGetConfig(fail)) /\ UNCHANGED notLife
DoPthSaveConfig == (\E fail \in BOOLEAN : PthSaveConfig(fail)) /\ UNCHANGED notLife
DoPthUpload == (\E fail \in BOOLEAN : PthUpload(fail)) /\ UNCHANGED notLife

Next ==
    \/ StartFromPretrained
    \/ DoFpRepo
    \/ DoFpName
    \/ DoFpLookup
    \/ DoFpConfig
    \/ DoFpInit
    \/ DoFpGetModel
    \/ DoFpLoad
    \/ DoFpReturn
    \/ DoConstruct
    \/ DoSavePretrained
    \/ StartPushToHub
    \/ DoPthList
    \/ DoPthCreate
    \/ DoPthGetConfig
    \/ DoPthSaveConfig
    \/ DoPthUpload
    \/ DoCallBase

Spec == Init /\ [][Next]_vars

-----------------------------------------------------------------------------
\* Properties of the lifecycle

IsPrefix(s, t) == Len(s) <= Len(t) /\ \A i \in 1..Len(s) : s[i] = t[i]
NoDup(s) == \A i, j \in 1..Len(s) : s[i] = s[j] => i = j
IsError(r) == r \notin {"none", "running", "ok"}

\* A repo of the fixed organization with the same last path component exists.
SameNameListed(repo_id, h) ==
    \E id \in RepoIds :
        /\ h[id].exists
        /\ Len(id) = 2
        /\ id[1] = HEZAR_HUB_ID
        /\ id[2] = repo_id[Len(repo_id)]

\* C1: in any sequence of push_to_hub calls, once the organization's repos have
\* been listed, create_repo is the next statement exactly when no repo of the
\* organization has the name of repo_id, and create_repo is never called for a
\* repo_id whose name is listed, whether that repo was there from the start or
\* was created by an earlier push_to_hub.
C1_CreateIffNotListed ==
    [][/\ (pc = "pth_list" /\ pc' # "idle")
            => ((pc' = "pth_create") <=> ~SameNameListed(frame.path, hub))
       /\ (Len(steps') = Len(steps) + 1 /\ steps'[Len(steps')] = "create_repo")
            => (pc = "pth_create" /\ ~SameNameListed(frame.path, hub))]_vars

\* A push_to_hub skips creation because of a repo an earlier push_to_hub created.
C1_Witness ==
    /\ frame.op = "push_to_hub"
    /\ pc = "pth_get_config"
    /\ steps = <<"list_models">>
    /\ \E id \in RepoIds :
          hub[id].origin = "create_repo" /\ id[1] = HEZAR_HUB_ID /\ id[2] = frame.path[2]

PushOrderCreated ==
    <<"list_models", "create_repo", "get_config", "OmegaConf.save", "upload_folder">>
PushOrderSkipped == <<"list_models", "get_config", "OmegaConf.save", "upload_folder">>

\* C2: within one push_to_hub the statements run in the order list, create (if
\* the name is absent), read config, rewrite and save config, upload; the upload
\* sends the local artifact directory as it is after the rewrite, so the config
\* of every completed upload has pretrained_path equal to repo_id.
C2_PushOrder ==
    /\ [](frame.op = "push_to_hub"
            => (IsPrefix(steps, PushOrderCreated) \/ IsPrefix(steps, PushOrderSkipped)))
    /\ [][(pc = "pth_upload" /\ result' = "ok")
            => /\ hub'[frame.path].files = fs[model.repo_dir]
               /\ hub'[frame.path].files.present
               /\ hub'[frame.path].files.config.pretrained_path = frame.path
               /\ fs[model.repo_dir].config.pretrained_path = frame.path]_vars

\* An upload has completed to a repo id other than the one the bundle came from.
C2_Witness ==
    /\ frame.op = "push_to_hub"
    /\ result = "ok"
    /\ steps = PushOrderCreated
    /\ hub[frame.path].files.config.pretrained_path = frame.path
    /\ frame.path # <<"hezar-ai", "m">>

FromPretrainedOrder ==
    <<"HezarRepo", "get_model_registry_name", "models_registry", "get_config", "cls",
      "get_model", "load_state_dict">>

\* C3: from_pretrained runs resolve repo, registry lookup, fetch config,
\* instantiate (building the module), read weights, load weights, in that order;
\* the model it returns is in inference mode, is bound to the repo resolved from
\* path, has a built module and carries the weights stored in that repo.
C3_FromPretrained ==
    /\ [](frame.op = "from_pretrained" => IsPrefix(steps, FromPretrainedOrder))
    /\ [](frame.model.state_dict \notin {"none", "initial"} => frame.model.module = "built")
    /\ [][pc = "fp_return"
            => /\ model'.exists
               /\ model'.mode = "inference"
               /\ model'.module = "built"
               /\ model'.repo_dir = (IF frame.path \in LocalDirs THEN frame.path
                                     ELSE CacheDir(frame.path))
               /\ fs[model'.repo_dir].present
               /\ model'.state_dict = fs[model'.repo_dir].weights
               /\ steps = FromPretrainedOrder]_vars

\* from_pretrained of a hub id has returned a model.
C3_Witness ==
    /\ frame.op = "from_pretrained"
    /\ result = "ok"
    /\ frame.path \in RepoIds
    /\ model.state_dict = "w_m"
    /\ model.mode = "inference"

Mask(config) == [config EXCEPT !.pretrained_path = NoPath]
SourceBundle(path, files, h) == IF path \in LocalDirs THEN files[path] ELSE h[path].files

\* C4: save_pretrained(new_path) right after from_pretrained(path) leaves at
\* new_path a config equal to the source bundle's config (the hub path aside),
\* and the source bundle and the model's artifact directory are still there,
\* unchanged.
C4_SaveIsCopy ==
    [][(frame.op = "from_pretrained" /\ result = "ok"
        /\ frame'.op = "save_pretrained" /\ result' = "ok")
        => /\ fs'[frame'.path].present
           /\ Mask(fs'[frame'.path].config) = Mask(SourceBundle(frame.path, fs, hub).config)
           /\ SourceBundle(frame.path, fs', hub').present
           /\ SourceBundle(frame.path, fs', hub') = SourceBundle(frame.path, fs, hub)
           /\ fs'[model.repo_dir].present
           /\ fs'[model.repo_dir] = fs[model.repo_dir]]_vars

\* The second call of a behaviour is a save_pretrained to another directory, of
\* a model that from_pretrained returned.
C4_Witness ==
    /\ calls = 2
    /\ frame.op = "save_pretrained"
    /\ result = "ok"
    /\ model.state_dict \notin {"none", "initial"}
    /\ frame.path # model.repo_dir
    /\ fs[frame.path] = fs[model.repo_dir]

\* C5: each of build_model, forward, predict and postprocess of the base class
\* ends with NotImplementedError for every input, returns nothing and leaves the
\* model, the local files and the hub as they were.
C5_AbstractRaises ==
    /\ [](frame.op \in AbstractOps => result = "NotImplementedError")
    /\ [][frame'.op \in AbstractOps /\ calls' = calls + 1
            => (model' = model /\ fs' = fs /\ hub' = hub /\ pc' = "idle")]_vars

C5_Witness ==
    /\ frame.op = "forward"
    /\ result = "NotImplementedError"
    /\ model.exists

\* C9: a failed statement of from_pretrained or push_to_hub ends the call with
\* its error: the call is over, every statement of the call ran at most once,
\* the failing step returned no model, and nothing more happens until the next
\* call starts.
C9_ErrorsPropagate ==
    /\ []((frame.op \in {"from_pretrained", "push_to_hub"} /\ IsError(result))
            => pc = "idle")
    /\ [](frame.op \in {"from_pretrained", "push_to_hub"} => NoDup(steps))
    /\ [][frame.op \in {"from_pretrained", "push_to_hub"}
            => /\ (result = "running" /\ IsError(result'))
                    => (model' = model /\ Len(steps') = Len(steps) + 1)
               /\ IsError(result) => calls' = calls + 1]_vars

\* create_repo failed: the call ended there, with no config rewrite and no upload.
C9_Witness ==
    /\ frame.op = "push_to_hub"
    /\ result = "HubError"
    /\ steps = <<"list_models", "create_repo">>
    /\ pc = "idle"


-----------------------------------------------------------------------------
\* The registry specification: any sequence of registrations and lookups.

notRegistry == <<lifeVars, tok, dbert>>

\* Nothing is registered, no call has been made, nothing is under construction.
InitRegistry ==
    /\ models_registry = EmptyRegistry
    /\ preprocessors_registry = EmptyRegistry
    /\ reg_log = <<>>
    /\ lookup = NoLookup
    /\ hub = EmptyHub
    /\ fs = InitFs("distilbert_sequence_labeling")
    /\ model = NoModel
    /\ pc = "idle"
    /\ frame = NoFrame
    /\ steps = <<>>
    /\ result = "none"
    /\ calls = 0
    /\ tok = NoTok
    /\ dbert = NoDbert

RegModel == RegisterModel /\ UNCHANGED notRegistry
RegPreprocessor == RegisterPreprocessor /\ UNCHANGED notRegistry
RegLookup == DoLookup /\ UNCHANGED notRegistry

NextRegistry ==
    \/ RegModel
    \/ RegPreprocessor
    \/ RegLookup

SpecRegistry == InitRegistry /\ [][NextRegistry]_vars

Kinds == {"model", "preprocessor"}

RegisteredAt(log, kind, name) ==
    {i \in 1..Len(log) : log[i].kind = kind /\ log[i].name = name}

Max(S) == CHOOSE x \in S : \A y \in S : y <= x

\* The pair named by the latest registration of (kind, name).
LatestPair(log, kind, name) ==
    Entry(log[Max(RegisteredAt(log, kind, name))].cls,
          log[Max(RegisteredAt(log, kind, name))].config)

\* C8: after any sequence of registrations and lookups, every name that was
\* registered is still in its registry with exactly the pair it was (last)
\* registered with, a lookup of it returns that pair, a name never registered is
\* in no registry and its lookup fails with KeyError.
C8_Registry ==
    /\ [](\A kind \in Kinds, name \in RegNames :
            IF RegisteredAt(reg_log, kind, name) # {}
            THEN RegistryOf(kind)[name] = LatestPair(reg_log, kind, name)
            ELSE ~RegistryOf(kind)[name].registered)
    /\ [][lookup' # lookup
            => IF RegisteredAt(reg_log, lookup'.kind, lookup'.name) # {}
               THEN /\ lookup'.status = "ok"
                    /\ lookup'.entry = LatestPair(reg_log, lookup'.kind, lookup'.name)
               ELSE /\ lookup'.status = "KeyError"
                    /\ ~lookup'.entry.registered]_vars

\* The source's own registration was looked up, after an unrelated name had
\* been registered as well.
C8_Witness ==
    /\ Len(reg_log) = 2
    /\ lookup.kind = "model"
    /\ lookup.name = "distilbert_sequence_labeling"
    /\ lookup.status = "ok"
    /\ lookup.entry = Entry("DistilBertSequenceLabeling", "DistilBertSequenceLabelingConfig")
    /\ models_registry = ImportDistilBert(models_registry)


-----------------------------------------------------------------------------
\* WordPieceTokenizer.build (hezar/preprocessors/tokenizers/wordpiece.py)

\* The longest special_tokens list a config is given.
MaxSpecial == 2

\* A pretrained_path is None or a string.
NonePath == [some |-> FALSE, value |-> ""]
StrPath(v) == [some |-> TRUE, value |-> v]
TokPaths == {NonePath, StrPath(""), StrPath("local/tok"), StrPath("hezar-ai/tok"),
             StrPath("missing")}

Tokens == {"[UNK]", "[SEP]", "[PAD]"}
UnkTokens == {"[UNK]", "<unk>"}
SpecialTokenLists == UNION {[1..n -> Tokens] : n \in 0..MaxSpecial}

\* What a tokenizer file holds.
FileVocab == {"[UNK]", "hello", "##s"}
FileUnk == "[UNK]"

\* Hub repos that hold a tokenizer file, and local directories that can exist.
HubTokenizers == {"hezar-ai/tok"}
PossibleDirs == {"local/tok", "hezar-ai/tok"}

NoTokenizer == [kind |-> "none", file |-> <<>>, vocab |-> {}, unk_token |-> "",
                decoder_prefix |-> ""]

\* `if pretrained_path:`: None and the empty string are false.
Truthy(p) == p.some /\ p.value # ""

\* A faulty variant of NeedsDownload: the test of os.path.isdir is inverted.
NeedsDownloadInverted(path, dirs) == path \in dirs

\* `if not os.path.isdir(pretrained_path):`
NeedsDownload(path, dirs) == path \notin dirs

\* os.path.join(pretrained_path, self.preprocessor_subfolder, self.tokenizer_filename)
LocalTokenizerFile(path) == <<path, "preprocessor_subfolder", "tokenizer_filename">>

\* hf_hub_download(path, filename=..., subfolder=...): the downloaded file's
\* place in the hub cache.
CachedTokenizerFile(path) ==
    <<"hub_cache", path, "preprocessor_subfolder", "tokenizer_filename">>

\* HFTokenizer.from_file(tokenizer_path)
FromFile(file) ==
    [kind |-> "loaded", file |-> file, vocab |-> FileVocab, unk_token |-> FileUnk,
     decoder_prefix |-> "##"]

\* A faulty variant of AddSpecialTokens: the unknown token is added as well.
AddSpecialAndUnk(tokenizer, special_tokens) ==
    [tokenizer EXCEPT !.vocab = tokenizer.vocab \cup {tokenizer.unk_token}
                        \cup {special_tokens[i] : i \in 1..Len(special_tokens)}]

\* tokenizer.add_special_tokens(self.config.special_tokens)
AddSpecialTokens(tokenizer, special_tokens) ==
    [tokenizer EXCEPT !.vocab =
        tokenizer.vocab \cup {special_tokens[i] : i \in 1..Len(special_tokens)}]

\* HFTokenizer(models.WordPiece(unk_token=self.config.unk_token)): no vocabulary.
FreshWordPiece(unk_token) ==
    [kind |-> "fresh", file |-> <<>>, vocab |-> {}, unk_token |-> unk_token,
     decoder_prefix |-> ""]

\* tokenizer.decoder = decoders.WordPiece(self.config.wordpieces_prefix)
SetDecoder(tokenizer, prefix) == [tokenizer EXCEPT !.decoder_prefix = prefix]

Built(tokenizer, log) == [status |-> "ok", tokenizer |-> tokenizer, log |-> log]
Failed(err, log) == [status |-> err, tokenizer |-> NoTokenizer, log |-> log]

\* WordPieceTokenizer.build(): the tokenizer it returns (or the error it ends
\* with) and the library calls it makes, for a config and the local directories
\* and tokenizer files that exist.
build(config, dirs, files) ==
    IF Truthy(config.pretrained_path)
    THEN IF NeedsDownload(config.pretrained_path.value, dirs)
         THEN IF config.pretrained_path.value \in HubTokenizers
              THEN Built(FromFile(CachedTokenizerFile(config.pretrained_path.value)),
                         <<"isdir", "resolve_pretrained_path", "hf_hub_download",
                           "from_file">>)
              ELSE Failed("HubError",
                          <<"isdir", "resolve_pretrained_path", "hf_hub_download">>)
         ELSE IF LocalTokenizerFile(config.pretrained_path.value) \in files
              THEN Built(FromFile(LocalTokenizerFile(config.pretrained_path.value)),
                         <<"isdir", "from_file">>)
              ELSE Failed("FileError", <<"isdir", "from_file">>)
    ELSE Built(SetDecoder(AddSpecialTokens(FreshWordPiece(config.unk_token),
                                           config.special_tokens),
                          config.wordpieces_prefix),
               <<"HFTokenizer", "add_special_tokens", "decoder">>)

\* WordPieceConfig with the fields build() reads.
WordPieceConfig(pretrained_path, special_tokens, unk_token) ==
    [pretrained_path |-> pretrained_path, special_tokens |-> special_tokens,
     unk_token |-> unk_token, wordpieces_prefix |-> "##"]

TokState(phase, config, dirs, files, out) ==
    [phase |-> phase, config |-> config, dirs |-> dirs, files |-> files,
     status |-> out.status, tokenizer |-> out.tokenizer, log |-> out.log]

NotBuilt == [status |-> "none", tokenizer |-> NoTokenizer, log |-> <<>>]

\* WordPieceTokenizer(config): a tokenizer object holding its config, on a
\* machine where some of the directories (with or without a tokenizer file) exist.
TokNew(config, dirs, files) ==
    /\ tok.phase = "none"
    /\ tok' = TokState("configured", config, dirs, files, NotBuilt)

\* self.build(), once per tokenizer.
TokBuild ==
    /\ tok.phase = "configured"
    /\ tok' = TokState("built", tok.config, tok.dirs, tok.files,
                       build(tok.config, tok.dirs, tok.files))

notTok == <<registryVars, lifeVars, dbert>>

NewTokenizer ==
    /\ \E p \in TokPaths, st \in SpecialTokenLists, u \in UnkTokens,
          dirs \in SUBSET PossibleDirs :
          \E files \in SUBSET {LocalTokenizerFile(d) : d \in dirs} :
              TokNew(WordPieceConfig(p, st, u), dirs, files)
    /\ UNCHANGED notTok

BuildTokenizer == TokBuild /\ UNCHANGED notTok

NextTokenizer ==
    \/ NewTokenizer
    \/ BuildTokenizer

InitTokenizer == InitRegistry

SpecTokenizer == InitTokenizer /\ [][NextTokenizer]_vars

IsBuilt == tok.phase = "built"
ListItems(l) == {l[i] : i \in 1..Len(l)}
InLog(call) == \E i \in 1..Len(tok.log) : tok.log[i] = call

\* C6: a tokenizer built from a config whose pretrained_path is None or empty
\* has exactly the configured special tokens as its vocabulary, has the
\* configured unknown token as its model's unknown token, and was built with no
\* hub download and no file load.
C6_FreshVocabulary ==
    (IsBuilt /\ (~tok.config.pretrained_path.some \/ tok.config.pretrained_path.value = ""))
        => /\ tok.status = "ok"
           /\ tok.tokenizer.vocab = ListItems(tok.config.special_tokens)
           /\ tok.tokenizer.unk_token = tok.config.unk_token
           /\ ~InLog("hf_hub_download")
           /\ ~InLog("from_file")

\* A fresh tokenizer whose unknown token is not among its special tokens.
C6_Witness ==
    /\ IsBuilt
    /\ tok.config.pretrained_path = StrPath("")
    /\ tok.config.unk_token = "<unk>"
    /\ tok.tokenizer.vocab = {"[SEP]", "[PAD]"}
    /\ tok.tokenizer.kind = "fresh"

\* C7: build() takes its artifact from exactly one source: a non-empty path
\* that is a local directory is loaded from that directory's preprocessor
\* subfolder with no download; a non-empty path that is no local directory is
\* downloaded from the hub and then loaded; only an empty path gives a fresh
\* tokenizer.
C7_OneSource ==
    IsBuilt =>
        LET p == tok.config.pretrained_path
            empty == ~p.some \/ p.value = ""
        IN  /\ (~empty /\ p.value \in tok.dirs)
                => /\ tok.log = <<"isdir", "from_file">>
                   /\ tok.status = "ok"
                        => tok.tokenizer = FromFile(<<p.value, "preprocessor_subfolder",
                                                      "tokenizer_filename">>)
            /\ (~empty /\ p.value \notin tok.dirs)
                => /\ IsPrefix(<<"isdir", "resolve_pretrained_path", "hf_hub_download">>,
                               tok.log)
                   /\ tok.status = "ok"
                        => /\ tok.log[Len(tok.log)] = "from_file"
                           /\ tok.tokenizer.kind = "loaded"
                           /\ tok.tokenizer.file[1] = "hub_cache"
            /\ (tok.tokenizer.kind = "fresh" <=> empty)
            /\ (tok.status = "ok" => tok.tokenizer.kind \in {"fresh", "loaded"})

\* A path that names both a hub repo and an existing local directory was loaded
\* from the directory.
C7_Witness ==
    /\ IsBuilt
    /\ tok.config.pretrained_path = StrPath("hezar-ai/tok")
    /\ "hezar-ai/tok" \in tok.dirs
    /\ tok.status = "ok"
    /\ tok.tokenizer.file = LocalTokenizerFile("hezar-ai/tok")


-----------------------------------------------------------------------------
\* DistilBertSequenceLabeling._build_inner_config

\* The largest number of labels a config is given.
MaxLabels == 3

\* num_labels is None or a number; id2label is None or a mapping 0..n-1 -> name,
\* written as the sequence of its names.
NoneInt == [some |-> FALSE, value |-> 0]
SomeInt(n) == [some |-> TRUE, value |-> n]
NoneMap == [some |-> FALSE, labels |-> <<>>]
SomeMap(l) == [some |-> TRUE, labels |-> l]

LabelNames == {<<"tag", "O">>, <<"tag", "B">>}
NumLabelsValues == {NoneInt} \cup {SomeInt(n) : n \in 0..MaxLabels}
Id2LabelValues ==
    {NoneMap} \cup {SomeMap(l) : l \in UNION {[1..n -> LabelNames] : n \in 0..MaxLabels}}

\* The default label names, LABEL_0 .. LABEL_{n-1}.
DefaultLabels(n) == [i \in 1..n |-> <<"LABEL", i - 1>>]

NoInner == [built |-> FALSE, num_labels |-> 0, id2label |-> <<>>]

\* DistilBertConfig(**self.config): the wrapped library's config. Given no
\* id2label it names the num_labels labels by default; given an id2label its
\* number of labels is that of the id2label.
DistilBertConfig(config) ==
    IF config.id2label.some
    THEN [built |-> TRUE, num_labels |-> Len(config.id2label.labels),
          id2label |-> config.id2label.labels]
    ELSE [built |-> TRUE, num_labels |-> config.num_labels.value,
          id2label |-> DefaultLabels(config.num_labels.value)]

\* A faulty variant of InferNumLabels: num_labels is set from id2label whenever
\* id2label is given.
InferNumLabelsAlways(config) ==
    IF config.id2label.some
    THEN [config EXCEPT !.num_labels = SomeInt(Len(config.id2label.labels))]
    ELSE config

\* if self.config.id2label is not None and self.config.num_labels is None:
\*     self.config.num_labels = len(self.config.id2label)
InferNumLabels(config) ==
    IF config.id2label.some /\ ~config.num_labels.some
    THEN [config EXCEPT !.num_labels = SomeInt(Len(config.id2label.labels))]
    ELSE config

\* _build_inner_config(): the config as it leaves it, the inner config it
\* returns, or the error it raises.
_build_inner_config(config) ==
    IF ~config.num_labels.some /\ ~config.id2label.some
    THEN [status |-> "ValueError", config |-> config, inner |-> NoInner]
    ELSE [status |-> "ok", config |-> InferNumLabels(config),
          inner |-> DistilBertConfig(InferNumLabels(config))]

\* A model object holding the config it was given.
DbertNew(num_labels, id2label) ==
    /\ dbert.phase = "none"
    /\ dbert' = [phase |-> "configured",
                 given |-> [num_labels |-> num_labels, id2label |-> id2label],
                 config |-> [num_labels |-> num_labels, id2label |-> id2label],
                 status |-> "none", inner |-> NoInner]

\* self.distilbert = DistilBertModel(self._build_inner_config())
DbertBuild ==
    /\ dbert.phase = "configured"
    /\ dbert' = [phase |-> "built", given |-> dbert.given,
                 config |-> _build_inner_config(dbert.config).config,
                 status |-> _build_inner_config(dbert.config).status,
                 inner |-> _build_inner_config(dbert.config).inner]

notDbert == <<registryVars, lifeVars, tok>>

NewDistilBert ==
    /\ \E n \in NumLabelsValues, m \in Id2LabelValues : DbertNew(n, m)
    /\ UNCHANGED notDbert

BuildInnerConfig == DbertBuild /\ UNCHANGED notDbert

NextDistilBert ==
    \/ NewDistilBert
    \/ BuildInnerConfig

InitDistilBert == InitRegistry

SpecDistilBert == InitDistilBert /\ [][NextDistilBert]_vars

\* C10: _build_inner_config raises a ValueError and builds no inner config when
\* num_labels and id2label are both None; sets num_labels to the number of
\* entries of id2label when only id2label is given; leaves the inner config with
\* the default label names LABEL_0.. for num_labels labels when only num_labels
\* is given; and never changes a num_labels that was given.
C10_InnerConfig ==
    dbert.phase = "built" =>
        LET n == dbert.given.num_labels
            m == dbert.given.id2label
        IN  /\ (~n.some /\ ~m.some) <=> dbert.status = "ValueError"
            /\ (~n.some /\ ~m.some) => (~dbert.inner.built /\ dbert.config = dbert.given)
            /\ (n.some \/ m.some) => (dbert.status = "ok" /\ dbert.inner.built)
            /\ (~n.some /\ m.some)
                => /\ dbert.config.num_labels = [some |-> TRUE, value |-> Len(m.labels)]
                   /\ dbert.inner.id2label = m.labels
            /\ (n.some /\ ~m.some)
                => /\ Len(dbert.inner.id2label) = n.value
                   /\ \A i \in 1..n.value : dbert.inner.id2label[i] = <<"LABEL", i - 1>>
            /\ n.some => dbert.config.num_labels = n
            /\ dbert.config.id2label = m

\* Both were given and disagree: num_labels stays as given.
C10_Witness ==
    /\ dbert.phase = "built"
    /\ dbert.given.num_labels = SomeInt(3)
    /\ dbert.given.id2label.some
    /\ Len(dbert.given.id2label.labels) = 2
    /\ dbert.config.num_labels = SomeInt(3)
    /\ dbert.status = "ok"


====
